---- MODULE Spec2Model ----
(***************************************************************************)
(* Lifecycle orchestrator of one test-project session                      *)
(* (packages/server/lib/project-base.ts, class ProjectBase).               *)
(*                                                                         *)
(* One ProjectBase instance is modelled.  Lifecycle calls (open, close)    *)
(* are asynchronous: each `await` of the source is a separate step, and    *)
(* pc is the position of the lifecycle call in flight.  Synchronous        *)
(* methods (reset, setCurrentSpecAndBrowser) and file-watch events may     *)
(* happen between any two steps.  The operations started by a Promise.all  *)
(* are the members of tasks: each settles in a step of its own, and one    *)
(* that is still pending when the call rejects keeps running.              *)
(*                                                                         *)
(* The static status helpers, getSpecUrl, the settings-file watch and the   *)
(* handlers of the session channel are modelled next to the lifecycle,     *)
(* each with variables of its own that no lifecycle step touches, and each *)
(* checked in a specification of its own.                                  *)
(*                                                                         *)
(* What the model takes from the collaborators, whose code is elsewhere:   *)
(*  - config.get, scaffold.*, plugins.init, spec discovery, the dev        *)
(*    server, server.open, Reporter.loadReporter, saveState and            *)
(*    checkSupportFile may fail; server.close, watchers.close,             *)
(*    preprocessor.close, server.reset, automation.reset and the           *)
(*    before:run / after:run hooks do not; neither do the recorder         *)
(*    callback, reporter.end and server.end;                               *)
(*  - cfg.reporter, when set, is an object of its declared type (line      *)
(*    493), so that the calls made on it go through;                       *)
(*  - during the lifecycle calls the millisecond clock advances by one     *)
(*    while plugins.init runs, and at no other step;                       *)
(*  - lifecycle calls are serialized: open() and close() are called when   *)
(*    no lifecycle call is in flight, and open() when no operation that a  *)
(*    rejected open() left behind is still pending.                        *)
(***************************************************************************)
EXTENDS Integers, Sequences, FiniteSets, TLC

\* ---------------------------------------------------------------- bounds
\* number of session servers the instance may construct (open() calls that
\* reach onOpen)
MaxServers == 2
\* number of plugins-file change events delivered
MaxEvents == 2

\* ---------------------------------------------------------------- values
\* an optional field is the empty set (undefined) or a singleton
Undefined == {}
Some(x) == {x}
The(opt) == CHOOSE x \in opt : TRUE
Null == "null"

ProjectTypes == {"e2e", "ct"}

\* a projectType the constructor accepts at run time though it is neither
OtherProjectTypes == {"unit"}

\* the part of the project's configuration and open() options the
\* lifecycle branches on
Envs ==
  [ isTextTerminal : BOOLEAN,       \* cfg.isTextTerminal / options.isTextTerminal
    runEvents : BOOLEAN,            \* cfg.experimentalInteractiveRunEvents
    pluginsFile : BOOLEAN,          \* cfg.pluginsFile is configured
    onSettingsChanged : BOOLEAN ]   \* options.onSettingsChanged is a callback

\* persisted state; 0 stands for an absent field
EmptyState == [firstOpened |-> 0, lastOpened |-> 0]

\* the viewport part of what config resolution and the plugins function
\* yield; 0 stands for a dimension that is not given
ConfigInputs ==
  [ rawJson : [viewportHeight : {0, 300}, viewportWidth : {0, 400}],
    viewportHeight : {300, 660},      \* as resolved by config.get
    viewportWidth : {400},
    pluginViewportHeight : {0, 720},  \* as returned by the plugins function
    port : {0}, pluginPort : {0}, freePort : {51001} ]

\* a config file and a plugins function that give no viewport dimension
PlainConfig ==
  [ rawJson |-> [viewportHeight |-> 0, viewportWidth |-> 0],
    viewportHeight |-> 660, viewportWidth |-> 400, pluginViewportHeight |-> 0,
    port |-> 0, pluginPort |-> 0, freePort |-> 51001 ]

\* the port part of what config resolution, the plugins function and the
\* host yield; 0 stands for a port that is not given
PortInputs ==
  [ rawJson : {PlainConfig.rawJson},
    viewportHeight : {660}, viewportWidth : {400}, pluginViewportHeight : {0},
    port : {0, 8080},             \* as resolved by config.get
    pluginPort : {0, 9090},       \* as returned by the plugins function
    freePort : {51001, 51002} ]   \* what the host assigns to a server

VARIABLES
  projectType,   \* this.projectType
  env,           \* the configuration in force (fixed per behaviour)
  spec,          \* this.spec
  browser,       \* this.browser
  cfg,           \* this._cfg: Undefined or the stored config object
  local,         \* cfg1 / cfg2 of the open() in flight, before it is stored
  server,        \* this._server: Undefined or an index of servers
  servers,       \* every session server constructed: "new", "open", "closed"
  automation,    \* this._automation: Undefined or the Automation
  watchers,      \* paths watched by this.watchers
  specWatcher,   \* the spec watcher has been started
  cwd,           \* process working directory: "local" or "projectRoot"
  saved,         \* the durable saved state of the project root
  clock,         \* what Date.now() returns
  stateToSave,   \* the local stateToSave of open(); lastOpened is `now`
  pluginHost,    \* "down" or "up": plugins.init has succeeded
  pc,            \* position of the lifecycle call in flight
  tasks,         \* operations started and not yet settled
  reinits,       \* watch-triggered _initPlugins calls not yet settled
  result,        \* outcome of the last lifecycle call
  trace,         \* collaborator calls made by the last lifecycle call
  rst,           \* outcome of the last reset() call, while hist.resetRun > 0
  errLog,        \* calls made by the last plugin-error delivery
  hist           \* history record used to state properties

\* the static project-status helpers (no instance state)
VARIABLES
  remote,          \* what the account client will answer (fixed per behaviour)
  clientProjects,  \* the argument of the status call
  statusOp,        \* the helper called: "none", "status" or "statuses"
  statusPc,        \* position of the status call
  lookups,         \* per client project: Pending, its status, or its error
  netCalls,        \* account-client calls made by the status call
  statusOut        \* what the status call settled with

statusVars == <<remote, clientProjects, statusOp, statusPc, lookups, netCalls,
                statusOut>>

\* what the project's files and plugins yield (fixed per behaviour)
VARIABLE configInput

\* getSpecUrl; a string is a sequence of tokens, each one of the characters
\* "/", ":", "\\", "%", "#", or a word standing for a run of other characters
VARIABLES
  browserUrl,    \* cfg.browserUrl of the config getConfig returns
  hostSep,       \* the separator path.join uses on the host: "/" or "\\"
  urlOut         \* per getSpecUrl argument pair: the URL returned, <<>> if none

urlVars == <<browserUrl, hostSep, urlOut>>

\* the settings-file watch of watchSettings
VARIABLES
  generatedProjectIdTimestamp,  \* this.generatedProjectIdTimestamp
  notices,                      \* settings-file change notifications delivered
  settingsCalls,                \* onSettingsChanged invocations
  lastInvoked                   \* the last notification invoked the callback

settingsVars == <<generatedProjectIdTimestamp, notices, settingsCalls,
                  lastInvoked>>

\* the handlers startWebsockets is given at lines 542-580, and what they
\* have done
VARIABLE channel

\* the variables no lifecycle step changes
helperVars == <<statusVars, configInput, urlVars, settingsVars, channel>>

progVars == <<projectType, env, spec, browser, cfg, local, server, servers,
              automation, watchers, specWatcher, cwd, saved, clock, stateToSave,
              pluginHost, pc, tasks, reinits>>
obsVars == <<result, trace, rst, errLog, hist>>
vars == <<progVars, obsVars, helperVars>>

\* ---------------------------------------------------------------- helpers

\* util/class-helpers ensureProp: the value, or a throw when it is not set
EnsurePropThrows(prop) == prop = Undefined

\* saved_state: state.set(changes) followed by state.get()
SavedStateSet(store, changes) ==
  [ firstOpened |-> IF changes.firstOpened # 0 THEN changes.firstOpened
                    ELSE store.firstOpened,
    lastOpened |-> IF changes.lastOpened # 0 THEN changes.lastOpened
                   ELSE store.lastOpened ]

\* no reset() call to report
NoReset == [threw |-> FALSE, calls |-> {}]

Min(a, b) == IF a < b THEN a ELSE b

OpenServers == {i \in 1..Len(servers) : servers[i] = "open"}

BarrierTasks == {"scaffold", "saveState"}
CheckTasks == {"checkSupportFile", "watchPluginsFile"}
CloseTasks == {"server.close", "watchers.close", "preprocessor.close"}

\* ------------------------------------------ project-status helper values
\* number of client projects handed to one getProjectStatuses call
MaxProjects == 2
\* number of tokens of cfg.browserUrl
MaxUrlLen == 6
\* the latest time, in milliseconds, to which the clock is advanced
MaxClock == 2000

\* project ids known to the client
ProjectIds == {"a", "b"}

\* a client project: the id field is absent when the project has no id
ClientProject(id) ==
  IF id = "" THEN [path |-> "/p", name |-> "client"]
  ELSE [id |-> id, path |-> "/p", name |-> "client"]

ClientProjectSet == {ClientProject(id) : id \in ProjectIds \cup {""}}

\* !clientProject.id
HasNoId(clientProject) == "id" \notin DOMAIN clientProject

\* the record the remote side holds for an id
RemoteProject(id) == [id |-> id, name |-> "remote", orgId |-> "org"]

\* how an account-client call may end: fulfilled, or rejected with an error
\* that carries an HTTP status code (0: a transport error, which has none)
ApiError(api, code) == [api |-> api, statusCode |-> code]
LookupOutcomes == {"ok", "404", "403", "500", "transport"}
LookupError(outcome) ==
  ApiError("getProject", CASE outcome = "404" -> 404
                           [] outcome = "403" -> 403
                           [] outcome = "500" -> 500
                           [] OTHER -> 0)

Remotes ==
  [ auth : BOOLEAN,                       \* user.ensureAuthToken fulfils
    listingOk : BOOLEAN,                  \* api.getProjects fulfils
    listed : SUBSET ProjectIds,           \* ids in the listing ({}: [] or null)
    lookup : [ProjectIds -> LookupOutcomes] ]   \* api.getProject(id)

SeqsUpTo(S, n) == UNION {[1..k -> S] : k \in 0..n}

\* an account-client call, as recorded in netCalls
NetCall(api, id) == [api |-> api, id |-> id]

\* a lookup slot not yet settled, and a call not yet settled
Pending == [pending |-> TRUE]
NoOutcome == [kind |-> "pending", value |-> <<>>, error |-> ApiError("", 0)]
Resolved(v) == [kind |-> "resolved", value |-> v, error |-> ApiError("", 0)]
Rejected(e) == [kind |-> "rejected", value |-> <<>>, error |-> e]

\* no status helper has been called
StatusIdle ==
  /\ remote = [auth |-> TRUE, listingOk |-> TRUE, listed |-> {},
               lookup |-> [i \in ProjectIds |-> "ok"]]
  /\ clientProjects = <<>>
  /\ statusOp = "none"
  /\ statusPc = "idle"
  /\ lookups = <<>>
  /\ netCalls = <<>>
  /\ statusOut = NoOutcome

InitHist ==
  [ phase |-> "Closed",       \* lifecycle state of section 4.1
    closeFrom |-> "Closed",   \* phase in which the last close() was called
    everOpened |-> FALSE,     \* some open() has resolved
    setSince |-> FALSE,       \* setCurrentSpecAndBrowser since last reset/close
    misuse |-> FALSE,         \* open() was called on an instance not Closed
    call |-> "none",          \* the last lifecycle call: "open" or "close"
    everSet |-> FALSE,        \* setCurrentSpecAndBrowser has been called
    resetRun |-> 0,           \* reset() calls since the last
                              \* setCurrentSpecAndBrowser, counted up to 2
    prior |-> EmptyState,     \* saved state when the last open() was called
    changeEvents |-> 0,       \* plugins-file change events delivered
    cyclesStarted |-> 0,      \* _initPlugins calls made by the watch
    cyclesFailed |-> 0,       \* of those, rejected
    onErrorCalls |-> 0,       \* options.onError calls made for those
    afterFail |-> FALSE,      \* a change event came after a failed cycle
    failedAt |-> "none",      \* the member of the barrier of the open() in
                              \* flight that failed first
    lookup |-> "none" ]       \* what fs.pathExists answered since the last
                              \* lifecycle call: "found" or "missing"

\* the state after construction, lines 64-85, for a project whose durable
\* saved state is one of savedStates
ConstructedAs(types, savedStates) ==
  /\ projectType \in types
  /\ env \in Envs
  /\ spec = Null
  /\ browser = Null
  /\ cfg = Undefined
  /\ local = Undefined
  /\ server = Undefined
  /\ servers = <<>>
  /\ automation = Undefined
  /\ watchers = {}
  /\ specWatcher = FALSE
  /\ cwd = "local"
  /\ saved \in savedStates
  /\ clock = 1
  /\ stateToSave = EmptyState
  /\ pluginHost = "down"
  /\ pc = "idle"
  /\ tasks = {}
  /\ reinits = 0
  /\ result = "none"
  /\ trace = <<>>
  /\ rst = NoReset
  /\ errLog = <<>>
  /\ hist = [InitHist EXCEPT !.prior = saved]

\* ------------------------------------------------------ getSpecUrl values
UrlTokens == {"w", ":", "/"}

SpecTypes == {"integration", "component"}

\* the absoluteSpecPath arguments: none, the sentinel, a spec file two
\* levels below the folder of its type
SpecPaths == {"undefined", "__all", "foo/bar.js"}

UrlArgs == SpecPaths \X SpecTypes

\* getSpecUrl has not been called
UrlIdle ==
  /\ browserUrl = <<"w", ":", "/", "/", "w">>
  /\ hostSep = "/"
  /\ urlOut = [a \in UrlArgs |-> <<>>]

\* the same, for a project of one of the two testing types
Constructed(savedStates) == ConstructedAs(ProjectTypes, savedStates)

\* no project id written, no settings-file notification delivered
SettingsIdle ==
  /\ generatedProjectIdTimestamp = Undefined
  /\ notices = 0
  /\ settingsCalls = 0
  /\ lastInvoked = FALSE

\* the channel handlers as startWebsockets gets them, for a `reporter`
\* (lines 493-515) that is set or not: nothing registered, nothing received
NewChannel(reporter) ==
  [ reporter |-> reporter,   \* the `reporter` of line 493 is not null
    recordTests |-> FALSE,   \* this._recordTests is set
    received |-> 0,          \* tests-received events delivered
    recorderCalls |-> 0,     \* recorder calls since the last registration
    recorderPending |-> 0,   \* recorder calls that have not returned yet
    acks |-> 0,              \* direct calls of an acknowledgement callback
    runnablesSet |-> 0,      \* reporter.setRunnables calls
    mocha |-> 0,             \* mocha events delivered
    forwarded |-> 0,         \* reporter.emit calls
    serverEnds |-> 0,        \* server.end calls
    ends |-> <<>> ]          \* per forwarded 'end' event: the end() calls
                             \* still pending, and the 'end' emits made

\* no channel event has been delivered to a project without reporter
ChannelIdle == channel = NewChannel(FALSE)

\* no helper outside the lifecycle has been called
HelpersIdle == StatusIdle /\ UrlIdle /\ SettingsIdle /\ ChannelIdle

\* a constructed instance, nothing else called
InitWith(savedStates) ==
  /\ Constructed(savedStates)
  /\ configInput = PlainConfig
  /\ HelpersIdle

\* a project never opened before, or one opened once at time 1
Init == InitWith({EmptyState, [firstOpened |-> 1, lastOpened |-> 1]})

\* a project never opened before
InitFresh == InitWith({EmptyState})

\* the same, opened by a caller that gives an onSettingsChanged callback
InitFreshWatched == InitFresh /\ env.onSettingsChanged

\* ---------------------------------------------------------------- open()

\* a stateToSave that never carries firstOpened
StateToSaveLastOnly(cfgState, t) == [lastOpened |-> t, firstOpened |-> 0]

\* a stateToSave that always carries firstOpened
StateToSaveBoth(cfgState, t) == [lastOpened |-> t, firstOpened |-> t]

\* lines 215-222: lastOpened always, firstOpened only when the config's
\* state has none
StateToSave(cfgState, t) ==
  [ lastOpened |-> t,
    firstOpened |-> IF cfgState.firstOpened = 0 THEN t ELSE 0 ]

\* config.get as called by getConfig, lines 657-676: the resolved config,
\* with the raw config file and the saved state attached
\* a URL on the local host
LocalUrl(port, route) ==
  [host |-> "localhost", port |-> port, route |-> route]

\* config.setUrls, line 196: the URL fields derived from the port
SetUrls(c) ==
  [c EXCEPT !.proxyUrl = LocalUrl(c.port, ""),
            !.browserUrl = LocalUrl(c.port, "/__/")]

ConfigGet(input, savedState) ==
  SetUrls([ state |-> savedState,
            rawJson |-> input.rawJson,
            viewportHeight |-> input.viewportHeight,
            viewportWidth |-> input.viewportWidth,
            port |-> input.port,
            proxyUrl |-> Undefined,
            browserUrl |-> Undefined,
            proxyServer |-> Undefined ])

\* config.updateWithPluginValues, line 343
UpdateWithPluginValues(c, input) ==
  LET d == IF input.pluginViewportHeight = 0 THEN c
           ELSE [c EXCEPT !.viewportHeight = input.pluginViewportHeight]
  IN IF input.pluginPort = 0 THEN d
     ELSE [d EXCEPT !.port = input.pluginPort]

\* server.open, line 130: the port the session server listens on
ServerPort(c, input) == IF c.port = 0 THEN input.freePort ELSE c.port

\* a reconciliation that stores the port and leaves the URL fields alone
ReconcilePortOnly(c, port) ==
  LET d == IF c.port = 0 THEN [c EXCEPT !.port = port] ELSE c
  IN [d EXCEPT !.proxyServer = Some(d.proxyUrl)]

\* open(), lines 192-199
ReconcileUrls(c, port) ==
  LET d == IF c.port = 0 THEN SetUrls([c EXCEPT !.port = port]) ELSE c
  IN [d EXCEPT !.proxyServer = Some(d.proxyUrl)]

\* an injection that falls back on 500 only when the resolved config has
\* no dimension
InjectKeepingResolved(c) ==
  [c EXCEPT !.viewportHeight = IF c.viewportHeight = 0 THEN 500 ELSE @,
            !.viewportWidth = IF c.viewportWidth = 0 THEN 500 ELSE @]

\* injectCtSpecificConfig, lines 109-117
InjectCtSpecificConfig(c) ==
  [c EXCEPT !.viewportHeight = IF c.rawJson.viewportHeight = 0 THEN 500
                               ELSE c.rawJson.viewportHeight,
            !.viewportWidth = IF c.rawJson.viewportWidth = 0 THEN 500
                              ELSE c.rawJson.viewportWidth]

\* onOpen, lines 126-128: the config handed to server.open
UpdatedCfg(pt, c) == IF pt = "e2e" THEN c ELSE InjectCtSpecificConfig(c)

\* watchSettings: the paths it puts under watch
WatchSettingsPaths(e) ==
  IF ~e.onSettingsChanged THEN {} ELSE {"configFile", "envFile"}

\* a hook executed in every interactive run
HookDueInteractive(e) == ~e.isTextTerminal

\* lines 243 and 299: the run-events hook is executed
HookDue(e) == ~(e.isTextTerminal \/ ~e.runEvents)

\* a watchPluginsFile that returns at once only when no plugins file is
\* configured
WatchPluginsSkippedNoFile(e) == ~e.pluginsFile

\* watchPluginsFile returns at once, before looking for the file
WatchPluginsSkipped(e) == ~e.pluginsFile \/ e.isTextTerminal

\* an open() that never scaffolds the plugins stub
NeverScaffoldsPluginsStub(e) == FALSE

\* line 181: open() scaffolds the plugins stub
ScaffoldsPluginsStub(e) == e.pluginsFile

\* a barrier that ignores the failure of its members
NeverRejectsOpen(ok, position) == FALSE

\* the Promise.all of line 224 rejects open() when a member fails while
\* open() awaits it
RejectsOpen(ok, position) == ~ok /\ position = "barrier"

\* the call in flight rejects
Reject ==
  /\ pc' = "idle"
  /\ result' = "rejected"

\* the call in flight resolves
Resolve ==
  /\ pc' = "idle"
  /\ result' = "resolved"

\* onOpen, line 120: this._server = new ServerE2E() / new ServerCt()
NewServer ==
  /\ servers' = Append(servers, "new")
  /\ server' = Some(Len(servers) + 1)

\* open(), lines 150-165: defaults, this.options, getConfig is called.
\* The code has no guard on the state of the instance: hist.misuse records
\* a call made on an instance that is not Closed.
OpenStart ==
  /\ pc = "idle"
  /\ tasks = {}
  /\ Len(servers) < MaxServers
  /\ pc' = "getConfig"
  /\ result' = "pending"
  /\ trace' = <<>>
  /\ hist' = [hist EXCEPT !.phase = "Opening",
                          !.misuse = @ \/ hist.phase # "Closed",
                          !.call = "open",
                          !.prior = saved,
                          !.failedAt = "none",
                          !.lookup = "none"]
  /\ UNCHANGED <<helperVars,
                 projectType, env, spec, browser, cfg, local, server, servers,
                 automation, watchers, specWatcher, cwd, saved, clock,
                 stateToSave, pluginHost, tasks, reinits, rst, errLog>>

\* a getConfig that resolves the config whatever is stored
ResolvesConfigAlways(stored) == TRUE

\* getConfig, lines 646-650: the stored config is returned when there is
\* one; the config is resolved (config.get, _setSavedState) otherwise
ResolvesConfig(stored) == stored = Undefined

\* getConfig, lines 641-677, settles; then lines 167-187 up to the first
\* await that follows
GetConfigDone ==
  /\ pc = "getConfig"
  /\ \E ok \in BOOLEAN :
       IF ResolvesConfig(cfg) /\ ~ok
       THEN /\ Reject
            /\ trace' = Append(trace, "config.get")
            /\ hist' = [hist EXCEPT !.phase = "Failed"]
            /\ UNCHANGED <<local, cwd, server, servers>>
       ELSE /\ local' = IF ResolvesConfig(cfg)
                       THEN Some(ConfigGet(configInput, saved))
                       ELSE cfg
            /\ cwd' = "projectRoot"
            /\ result' = result
            /\ hist' = hist
            /\ IF ScaffoldsPluginsStub(env)
               THEN /\ pc' = "scaffoldPlugins"
                    /\ trace' = (IF ResolvesConfig(cfg)
                                 THEN Append(trace, "config.get")
                                 ELSE trace)
                                \o <<"chdir", "scaffold.plugins">>
                    /\ UNCHANGED <<server, servers>>
               ELSE /\ pc' = "initPlugins"
                    /\ trace' = (IF ResolvesConfig(cfg)
                                 THEN Append(trace, "config.get")
                                 ELSE trace)
                                \o <<"chdir", "plugins.init">>
                    /\ NewServer
  /\ UNCHANGED <<helperVars,
                 projectType, env, spec, browser, cfg, automation, watchers,
                 specWatcher, saved, clock, stateToSave, pluginHost, tasks,
                 reinits, rst, errLog>>

\* scaffold.plugins, line 184, settles; onOpen starts
ScaffoldPluginsDone ==
  /\ pc = "scaffoldPlugins"
  /\ \E ok \in BOOLEAN :
       IF ok
       THEN /\ pc' = "initPlugins"
            /\ NewServer
            /\ trace' = Append(trace, "plugins.init")
            /\ UNCHANGED <<result, hist>>
       ELSE /\ Reject
            /\ hist' = [hist EXCEPT !.phase = "Failed"]
            /\ UNCHANGED <<server, servers, trace>>
  /\ UNCHANGED <<helperVars,
                 projectType, env, spec, browser, cfg, local, automation,
                 watchers, specWatcher, cwd, saved, clock, stateToSave,
                 pluginHost, tasks, reinits, rst, errLog>>

\* plugins.init, line 333, settles in _initPlugins called from onOpen; the
\* clock has advanced meanwhile
InitPluginsDone ==
  /\ pc = "initPlugins"
  /\ clock' = clock + 1
  /\ \E ok \in BOOLEAN :
       IF ok
       THEN /\ pc' = "specStore"
            /\ pluginHost' = "up"
            /\ local' = Some(UpdateWithPluginValues(The(local), configInput))
            /\ trace' = Append(trace, "specs.find")
            /\ UNCHANGED <<result, hist>>
       ELSE /\ Reject
            /\ hist' = [hist EXCEPT !.phase = "Failed"]
            /\ UNCHANGED <<pluginHost, local, trace>>
  /\ UNCHANGED <<helperVars,
                 projectType, env, spec, browser, cfg, server,
                 servers, automation, watchers, specWatcher, cwd, saved,
                 stateToSave, tasks, reinits, rst, errLog>>

\* lines 358-368: the filter callback runs once per discovered spec, and
\* throws when the projectType is neither ct nor e2e
FilterThrows(pt, found) == found /\ pt \notin {"ct", "e2e"}

\* specsUtil.find, the filter of lines 358-368 and initSpecStore settle;
\* onOpen calls server.open
SpecStoreDone ==
  /\ pc = "specStore"
  /\ \E ok \in BOOLEAN, found \in BOOLEAN :
       IF ok /\ ~FilterThrows(projectType, found)
       THEN /\ pc' = "serverOpen"
            /\ local' = Some(UpdatedCfg(projectType, The(local)))
            /\ trace' = Append(trace, "server.open")
            /\ UNCHANGED <<result, hist>>
       ELSE /\ Reject
            /\ hist' = [hist EXCEPT !.phase = "Failed"]
            /\ UNCHANGED <<local, trace>>
  /\ UNCHANGED <<helperVars,
                 projectType, env, spec, browser, cfg, server,
                 servers, automation, watchers, specWatcher, cwd, saved, clock,
                 stateToSave, pluginHost, tasks, reinits, rst, errLog>>

\* server.open, line 130, settles; then lines 187-228 up to the await of
\* the Promise.all
ServerOpenDone ==
  /\ pc = "serverOpen"
  /\ \E ok \in BOOLEAN, reporterOk \in BOOLEAN :
       IF ~ok
       THEN /\ Reject
            /\ hist' = [hist EXCEPT !.phase = "Failed"]
            /\ UNCHANGED <<servers, cfg, local, stateToSave, watchers,
                           automation, tasks, trace>>
       ELSE /\ servers' = [servers EXCEPT ![The(server)] = "open"]
            /\ cfg' = Some(ReconcileUrls(The(local),
                                         ServerPort(The(local), configInput)))
            /\ local' = Undefined
            /\ stateToSave' = StateToSave(The(local).state, clock)
            /\ watchers' = watchers \cup WatchSettingsPaths(env)
            /\ IF ~reporterOk
               THEN \* Reporter.loadReporter throws inside the array literal
                    /\ Reject
                    /\ hist' = [hist EXCEPT !.phase = "Failed",
                                            !.failedAt = "startWebsockets"]
                    /\ trace' = Append(trace, "loadReporter")
                    /\ UNCHANGED <<automation, tasks>>
               ELSE /\ automation' = Some("automation")
                    /\ tasks' = tasks \cup BarrierTasks
                    /\ pc' = "barrier"
                    /\ trace' = trace \o <<"startWebsockets", "scaffold",
                                           "saveState">>
                    /\ UNCHANGED <<result, hist>>
  /\ UNCHANGED <<helperVars,
                 projectType, env, spec, browser, server, specWatcher, cwd,
                 saved, clock, pluginHost, reinits, rst, errLog>>

\* this.scaffold(cfg2), line 226, settles
ScaffoldDone ==
  /\ "scaffold" \in tasks
  /\ tasks' = tasks \ {"scaffold"}
  /\ \E ok \in BOOLEAN :
       /\ IF RejectsOpen(ok, pc)
          THEN Reject /\ hist' = [hist EXCEPT !.phase = "Failed",
                                              !.failedAt = "scaffold"]
          ELSE /\ UNCHANGED <<pc, result>>
               /\ hist' = IF ~ok /\ pc = "barrier"
                          THEN [hist EXCEPT !.failedAt = "scaffold"]
                          ELSE hist
  /\ UNCHANGED <<helperVars,
                 projectType, env, spec, browser, cfg, local, server, servers,
                 automation, watchers, specWatcher, cwd, saved, clock,
                 stateToSave, pluginHost, reinits, trace, rst, errLog>>

\* saveState, lines 680-696, settles: the changes are merged into the
\* saved state and the result becomes this.cfg.state
SaveState ==
  /\ saved' = SavedStateSet(saved, stateToSave)
  /\ cfg' = Some([The(cfg) EXCEPT !.state = saved'])

SaveStateDone ==
  /\ "saveState" \in tasks
  /\ tasks' = tasks \ {"saveState"}
  /\ \E ok \in BOOLEAN :
       IF ok
       THEN SaveState /\ UNCHANGED <<pc, result, hist>>
       ELSE /\ UNCHANGED <<saved, cfg>>
            /\ IF RejectsOpen(ok, pc)
               THEN Reject /\ hist' = [hist EXCEPT !.phase = "Failed",
                                                   !.failedAt = "saveState"]
               ELSE /\ UNCHANGED <<pc, result>>
                    /\ hist' = IF pc = "barrier"
                               THEN [hist EXCEPT !.failedAt = "saveState"]
                               ELSE hist
  /\ UNCHANGED <<helperVars,
                 projectType, env, spec, browser, local, server, servers,
                 automation, watchers, specWatcher, cwd, clock, stateToSave,
                 pluginHost, reinits, trace, rst, errLog>>

\* the Promise.all of line 224 resolves; lines 236-241 up to the await
BarrierDone ==
  /\ pc = "barrier"
  /\ tasks \cap BarrierTasks = {}
  /\ specWatcher' = TRUE
  /\ pc' = "checks"
  /\ tasks' = tasks \cup (IF WatchPluginsSkipped(env)
                          THEN {"checkSupportFile"} ELSE CheckTasks)
  /\ trace' = trace \o <<"startSpecWatcher", "checkSupportFile",
                         "watchPluginsFile">>
  /\ UNCHANGED <<helperVars,
                 projectType, env, spec, browser, cfg, local, server, servers,
                 automation, watchers, cwd, saved, clock, stateToSave,
                 pluginHost, reinits, result, rst, errLog, hist>>

\* checkSupportFile, lines 304-316, settles
CheckSupportFileDone ==
  /\ "checkSupportFile" \in tasks
  /\ tasks' = tasks \ {"checkSupportFile"}
  /\ \E ok \in BOOLEAN :
       IF ~ok /\ pc = "checks"
       THEN Reject /\ hist' = [hist EXCEPT !.phase = "Failed"]
       ELSE UNCHANGED <<pc, result, hist>>
  /\ UNCHANGED <<helperVars,
                 projectType, env, spec, browser, cfg, local, server, servers,
                 automation, watchers, specWatcher, cwd, saved, clock,
                 stateToSave, pluginHost, reinits, trace, rst, errLog>>

\* watchPluginsFile, lines 434-455: fs.pathExists settles and, when the file
\* is found, the watch is registered
WatchPluginsFileDone ==
  /\ "watchPluginsFile" \in tasks
  /\ tasks' = tasks \ {"watchPluginsFile"}
  /\ \E found \in BOOLEAN :
       /\ watchers' = IF found THEN watchers \cup {"pluginsFile"}
                      ELSE watchers
       /\ hist' = [hist EXCEPT !.lookup = IF found THEN "found"
                                          ELSE "missing"]
  /\ UNCHANGED <<helperVars,
                 projectType, env, spec, browser, cfg, local, server, servers,
                 automation, specWatcher, cwd, saved, clock, stateToSave,
                 pluginHost, pc, reinits, result, trace, rst, errLog>>

\* the Promise.all of line 238 resolves; lines 243-252
ChecksDone ==
  /\ pc = "checks"
  /\ tasks \cap CheckTasks = {}
  /\ IF HookDue(env)
     THEN /\ pc' = "beforeRun"
          /\ trace' = Append(trace, "before:run")
          /\ UNCHANGED <<result, hist>>
     ELSE /\ Resolve
          /\ hist' = [hist EXCEPT !.phase = "Open", !.everOpened = TRUE]
          /\ UNCHANGED trace
  /\ UNCHANGED <<helperVars,
                 projectType, env, spec, browser, cfg, local, server, servers,
                 automation, watchers, specWatcher, cwd, saved, clock,
                 stateToSave, pluginHost, tasks, reinits, rst, errLog>>

\* runEvents.execute('before:run'), line 252, settles
BeforeRunDone ==
  /\ pc = "beforeRun"
  /\ Resolve
  /\ hist' = [hist EXCEPT !.phase = "Open", !.everOpened = TRUE]
  /\ UNCHANGED <<helperVars,
                 projectType, env, spec, browser, cfg, local, server, servers,
                 automation, watchers, specWatcher, cwd, saved, clock,
                 stateToSave, pluginHost, tasks, reinits, trace, rst, errLog>>


\* ---------------------------------------------------------------- close()

\* a close() that closes the preprocessor whatever the project type
ClosesPreprocessorAlways(pt) == TRUE

\* line 287: the preprocessor is closed for e2e projects only
ClosesPreprocessor(pt) == pt = "e2e"

\* line 290: `this.server?.close()` reads the getter of lines 93-95
ServerGetterThrows(s) == EnsurePropThrows(s)

\* a close() that leaves the session server alone
CloseCallsNoServer(pt) ==
  <<"watchers.close">>
    \o (IF ClosesPreprocessor(pt) THEN <<"preprocessor.close">> ELSE <<>>)

\* lines 289-293: the operations close() starts
CloseCalls(pt) ==
  <<"server.close", "watchers.close">>
    \o (IF ClosesPreprocessor(pt) THEN <<"preprocessor.close">> ELSE <<>>)

Range(f) == {f[i] : i \in DOMAIN f}

\* a close() that leaves the current spec and browser in place
CloseKeeps == UNCHANGED <<spec, browser>>

\* lines 284-285
CloseClears ==
  /\ spec' = Null
  /\ browser' = Null

\* close(), lines 281-293 up to the await of the Promise.all
CloseStart ==
  /\ pc = "idle"
  /\ CloseClears
  /\ IF ServerGetterThrows(server)
     THEN /\ Reject
          /\ trace' = <<>>
          /\ hist' = [hist EXCEPT !.closeFrom = hist.phase,
                                  !.call = "close",
                                  !.setSince = FALSE,
                                  !.failedAt = "none",
                                  !.lookup = "none"]
          /\ UNCHANGED tasks
     ELSE /\ pc' = "closing"
          /\ result' = "pending"
          /\ trace' = CloseCalls(projectType)
          /\ tasks' = tasks \cup Range(CloseCalls(projectType))
          /\ hist' = [hist EXCEPT !.closeFrom = hist.phase,
                                  !.call = "close",
                                  !.phase = "Closing",
                                  !.setSince = FALSE,
                                  !.failedAt = "none",
                                  !.lookup = "none"]
  /\ UNCHANGED <<helperVars,
                 projectType, env, cfg, local, server, servers, automation,
                 watchers, specWatcher, cwd, saved, clock, stateToSave,
                 pluginHost, reinits, rst, errLog>>

\* this.server.close() settles
ServerCloseDone ==
  /\ "server.close" \in tasks
  /\ tasks' = tasks \ {"server.close"}
  /\ servers' = [servers EXCEPT ![The(server)] = "closed"]
  /\ UNCHANGED <<helperVars,
                 projectType, env, spec, browser, cfg, local, server,
                 automation, watchers, specWatcher, cwd, saved, clock,
                 stateToSave, pluginHost, pc, reinits, obsVars>>

\* a registry whose close leaves the tree watch of the plugins file
WatchersAfterCloseKeepsTree(w) == w \cap {"pluginsFile"}

\* watchers.close(): the watches left once the registry has closed all
WatchersAfterClose(w) == {}

\* this.watchers.close() settles: every watch is removed
WatchersCloseDone ==
  /\ "watchers.close" \in tasks
  /\ tasks' = tasks \ {"watchers.close"}
  /\ watchers' = WatchersAfterClose(watchers)
  /\ UNCHANGED <<helperVars,
                 projectType, env, spec, browser, cfg, local, server, servers,
                 automation, specWatcher, cwd, saved, clock, stateToSave,
                 pluginHost, pc, reinits, obsVars>>

\* preprocessor.close() settles
PreprocessorCloseDone ==
  /\ "preprocessor.close" \in tasks
  /\ tasks' = tasks \ {"preprocessor.close"}
  /\ UNCHANGED <<helperVars,
                 projectType, env, spec, browser, cfg, local, server, servers,
                 automation, watchers, specWatcher, cwd, saved, clock,
                 stateToSave, pluginHost, pc, reinits, obsVars>>

\* lines 299-301 once the config is known
CloseFinish(callsSoFar) ==
  IF HookDue(env)
  THEN /\ pc' = "afterRun"
       /\ trace' = Append(callsSoFar, "after:run")
       /\ UNCHANGED <<result, hist>>
  ELSE /\ Resolve
       /\ trace' = callsSoFar
       /\ hist' = [hist EXCEPT !.phase = "Closed"]

\* the Promise.all of line 289 resolves; lines 295-297
CloseSettled ==
  /\ pc = "closing"
  /\ tasks \cap CloseTasks = {}
  /\ cwd' = "local"
  /\ IF ResolvesConfig(cfg)
     THEN /\ pc' = "closeGetConfig"
          /\ trace' = trace \o <<"chdir", "config.get">>
          /\ UNCHANGED <<result, hist>>
     ELSE CloseFinish(Append(trace, "chdir"))
  /\ UNCHANGED <<helperVars,
                 projectType, env, spec, browser, cfg, local, server, servers,
                 automation, watchers, specWatcher, saved, clock, stateToSave,
                 pluginHost, tasks, reinits, rst, errLog>>

\* getConfig, called by close() with no config stored, settles
CloseGetConfigDone ==
  /\ pc = "closeGetConfig"
  /\ \E ok \in BOOLEAN :
       IF ok
       THEN CloseFinish(trace)
       ELSE /\ Reject
            /\ hist' = [hist EXCEPT !.phase = "Failed"]
            /\ UNCHANGED trace
  /\ UNCHANGED <<helperVars,
                 projectType, env, spec, browser, cfg, local, server, servers,
                 automation, watchers, specWatcher, cwd, saved, clock,
                 stateToSave, pluginHost, tasks, reinits, rst, errLog>>

\* runEvents.execute('after:run'), line 301, settles
AfterRunDone ==
  /\ pc = "afterRun"
  /\ Resolve
  /\ hist' = [hist EXCEPT !.phase = "Closed"]
  /\ UNCHANGED <<helperVars,
                 projectType, env, spec, browser, cfg, local, server, servers,
                 automation, watchers, specWatcher, cwd, saved, clock,
                 stateToSave, pluginHost, tasks, reinits, trace, rst, errLog>>

\* ------------------------------------------- reset, setCurrentSpecAndBrowser

\* a reset() that reads the throwing getters of lines 93-99
ResetOutcomeViaGetters(a, s) ==
  [ threw |-> EnsurePropThrows(a) \/ EnsurePropThrows(s),
    calls |-> (IF a # Undefined THEN {"automation.reset"} ELSE {})
              \cup (IF a # Undefined /\ s # Undefined
                    THEN {"server.reset"} ELSE {}) ]

\* lines 270-278: what reset() forwards, and whether it throws
ResetOutcome(a, s) ==
  [ threw |-> FALSE,
    calls |-> (IF a # Undefined THEN {"automation.reset"} ELSE {})
              \cup (IF s # Undefined THEN {"server.reset"} ELSE {}) ]

\* reset(), lines 264-279
Reset ==
  /\ spec' = Null
  /\ browser' = Null
  /\ rst' = ResetOutcome(automation, server)
  /\ hist' = [hist EXCEPT !.setSince = FALSE,
                          !.resetRun = Min(@ + 1, 2)]
  /\ UNCHANGED <<helperVars,
                 projectType, env, cfg, local, server, servers, automation,
                 watchers, specWatcher, cwd, saved, clock, stateToSave,
                 pluginHost, pc, tasks, reinits, result, trace, errLog>>

Specs == {"app.spec.js"}
Browsers == {"chrome"}

\* setCurrentSpecAndBrowser, lines 598-601
SetCurrentSpecAndBrowser ==
  /\ \E s \in Specs, b \in Browsers :
       /\ spec' = s
       /\ browser' = b
  /\ rst' = NoReset
  /\ hist' = [hist EXCEPT !.setSince = TRUE, !.everSet = TRUE,
                          !.resetRun = 0]
  /\ UNCHANGED <<helperVars,
                 projectType, env, cfg, local, server, servers, automation,
                 watchers, specWatcher, cwd, saved, clock, stateToSave,
                 pluginHost, pc, tasks, reinits, result, trace, errLog>>

\* ------------------------------------------------ plugins-file watch cycle

\* lines 445-454: the number of _initPlugins calls one change event makes
InitCallsPerChange == 1

\* lines 451-453: what the catch of a rejected _initPlugins calls
CatchCalls == <<"onError">>

\* _onError, lines 318-324
OnErrorCalls == <<"browsers.close", "onError">>

\* a failed cycle that closes the plugins-file watch
WatchDroppedAfterFailure(w) == w \ {"pluginsFile"}

\* lines 444-455: nothing in the catch touches this.watchers
WatchersAfterFailure(w) == w

\* lines 444-450: the config the onChange of the watch hands to
\* _initPlugins is the cfg watchPluginsFile was called with at line 240,
\* which is the object open() stores at line 203
CycleInput(stored) == stored

\* the onChange of the plugins-file watch, lines 445-454, is called
PluginsFileChange ==
  /\ "pluginsFile" \in watchers
  /\ hist.changeEvents < MaxEvents
  /\ reinits' = reinits + InitCallsPerChange
  /\ hist' = [hist EXCEPT !.changeEvents = @ + 1,
                          !.cyclesStarted = @ + InitCallsPerChange,
                          !.afterFail = @ \/ hist.cyclesFailed > 0]
  /\ UNCHANGED <<helperVars,
                 projectType, env, spec, browser, cfg, local, server, servers,
                 automation, watchers, specWatcher, cwd, saved, clock,
                 stateToSave, pluginHost, pc, tasks, result, trace, rst,
                 errLog>>

\* a watch-triggered _initPlugins settles
ReinitDone ==
  /\ reinits > 0
  /\ reinits' = reinits - 1
  /\ \E ok \in BOOLEAN :
       IF ok
       THEN UNCHANGED <<watchers, errLog, hist>>
       ELSE /\ errLog' = CatchCalls
            /\ watchers' = WatchersAfterFailure(watchers)
            /\ hist' = [hist EXCEPT !.cyclesFailed = @ + 1,
                                    !.onErrorCalls = @ + 1]
  /\ UNCHANGED <<helperVars,
                 projectType, env, spec, browser, cfg, local, server, servers,
                 automation, specWatcher, cwd, saved, clock, stateToSave,
                 pluginHost, pc, tasks, result, trace, rst>>

\* the plugin host reports an error through the onError given to
\* plugins.init, line 337
PluginHostError ==
  /\ pluginHost = "up"
  /\ errLog' = OnErrorCalls
  /\ UNCHANGED <<helperVars, progVars, result, trace, rst, hist>>

\* ------------------------------------------------ project-status helpers

\* _.extend({}, a, b): the fields of b override those of a
Extend(a, b) ==
  [k \in DOMAIN a \cup DOMAIN b |-> IF k \in DOMAIN b THEN b[k] ELSE a[k]]

\* _mergeDetails, lines 914-916
MergeDetails(clientProject, project) ==
  Extend(Extend(clientProject, project), [state |-> "VALID"])

\* _mergeState, lines 918-920
MergeState(clientProject, state) == Extend(clientProject, [state |-> state])

\* a _getProject that answers INVALID to a 403 and UNAUTHORIZED to a 404
LookupResultSwapped(clientProject, outcome) ==
  IF outcome = "ok"
  THEN MergeDetails(clientProject, RemoteProject(clientProject.id))
  ELSE CASE LookupError(outcome).statusCode = 403 ->
              MergeState(clientProject, "INVALID")
         [] LookupError(outcome).statusCode = 404 ->
              MergeState(clientProject, "UNAUTHORIZED")
         [] OTHER -> LookupError(outcome)

\* _getProject, lines 922-944, once api.getProject has settled: the status,
\* or the error it throws
LookupResult(clientProject, outcome) ==
  IF outcome = "ok"
  THEN MergeDetails(clientProject, RemoteProject(clientProject.id))
  ELSE CASE LookupError(outcome).statusCode = 404 ->
              MergeState(clientProject, "INVALID")
         [] LookupError(outcome).statusCode = 403 ->
              MergeState(clientProject, "UNAUTHORIZED")
         [] OTHER -> LookupError(outcome)

IsPending(slot) == "pending" \in DOMAIN slot
Threw(slot) == "statusCode" \in DOMAIN slot

\* lines 958-981: what the map callback returns for one client project
MapProject(clientProject, listed) ==
  IF HasNoId(clientProject) THEN MergeState(clientProject, "VALID")
  ELSE IF clientProject.id \in listed
       THEN MergeDetails(clientProject, RemoteProject(clientProject.id))
       ELSE Pending

\* the api.getProject calls the map callbacks make, in order
LookupCalls(projects, listed) ==
  LET Looked(i) == IsPending(MapProject(projects[i], listed))
      idx == SelectSeq([i \in 1..Len(projects) |-> i], Looked)
  IN [k \in 1..Len(idx) |-> NetCall("getProject", projects[idx[k]].id)]

\* getProjectStatus, lines 984-993, up to its first await
GetProjectStatus ==
  /\ statusOp = "none"
  /\ Len(clientProjects) = 1
  /\ statusOp' = "status"
  /\ IF HasNoId(clientProjects[1])
     THEN /\ statusOut' = Resolved(<<MergeState(clientProjects[1], "VALID")>>)
          /\ statusPc' = "done"
          /\ UNCHANGED netCalls
     ELSE /\ netCalls' = <<NetCall("ensureAuthToken", "")>>
          /\ statusPc' = "auth"
          /\ UNCHANGED statusOut
  /\ UNCHANGED <<settingsVars, configInput, channel, urlVars, remote,
                 clientProjects, lookups, progVars, obsVars>>

\* getProjectStatuses, lines 946-949, up to its first await
GetProjectStatuses ==
  /\ statusOp = "none"
  /\ statusOp' = "statuses"
  /\ netCalls' = <<NetCall("ensureAuthToken", "")>>
  /\ statusPc' = "auth"
  /\ UNCHANGED <<settingsVars, configInput, channel, urlVars, remote,
                 clientProjects, lookups, statusOut, progVars, obsVars>>

\* user.ensureAuthToken settles, lines 949-953 and 993-997
AuthTokenDone ==
  /\ statusPc = "auth"
  /\ IF ~remote.auth
     THEN /\ statusOut' = Rejected(ApiError("ensureAuthToken", 0))
          /\ statusPc' = "done"
          /\ UNCHANGED <<netCalls, lookups>>
     ELSE IF statusOp = "status"
          THEN /\ netCalls' =
                    Append(netCalls, NetCall("getProject", clientProjects[1].id))
               /\ lookups' = <<Pending>>
               /\ statusPc' = "lookups"
               /\ UNCHANGED statusOut
          ELSE /\ netCalls' = Append(netCalls, NetCall("getProjects", ""))
               /\ statusPc' = "listing"
               /\ UNCHANGED <<statusOut, lookups>>
  /\ UNCHANGED <<settingsVars, configInput, channel, urlVars, remote,
                 clientProjects, statusOp, progVars, obsVars>>

\* api.getProjects settles, lines 953-981: the map starts every lookup
ListingDone ==
  /\ statusPc = "listing"
  /\ IF ~remote.listingOk
     THEN /\ statusOut' = Rejected(ApiError("getProjects", 0))
          /\ statusPc' = "done"
          /\ UNCHANGED <<netCalls, lookups>>
     ELSE /\ lookups' = [i \in 1..Len(clientProjects) |->
                           MapProject(clientProjects[i], remote.listed)]
          /\ netCalls' = netCalls \o LookupCalls(clientProjects, remote.listed)
          /\ statusPc' = "lookups"
          /\ UNCHANGED statusOut
  /\ UNCHANGED <<settingsVars, configInput, channel, urlVars, remote,
                 clientProjects, statusOp, progVars, obsVars>>

\* one _getProject settles; the first one to throw rejects the Promise.all
\* of line 958 (or the getProjectStatus call), the others keep running
LookupDone ==
  /\ \E i \in DOMAIN lookups :
       /\ IsPending(lookups[i])
       /\ lookups' =
            [lookups EXCEPT ![i] = LookupResult(clientProjects[i],
                                     remote.lookup[clientProjects[i].id])]
       /\ IF Threw(lookups'[i]) /\ statusPc = "lookups"
          THEN /\ statusOut' = Rejected(lookups'[i])
               /\ statusPc' = "done"
          ELSE UNCHANGED <<statusOut, statusPc>>
  /\ UNCHANGED <<settingsVars, configInput, channel, urlVars, remote,
                 clientProjects, statusOp, netCalls, progVars, obsVars>>

\* every member of the Promise.all has fulfilled
StatusSettled ==
  /\ statusPc = "lookups"
  /\ \A i \in DOMAIN lookups : ~IsPending(lookups[i])
  /\ statusOut' = Resolved(lookups)
  /\ statusPc' = "done"
  /\ UNCHANGED <<settingsVars, configInput, channel, urlVars, remote,
                 clientProjects, statusOp, lookups, netCalls, progVars, obsVars>>

\* ------------------------------------------------------------ getSpecUrl

\* util/escape_filename escapeFilenameInUrl: percent-escapes the characters
\* of a file name that are unsafe in a URL fragment
RECURSIVE EscapeFilenameInUrl(_)
EscapeFilenameInUrl(str) ==
  IF str = <<>> THEN <<>>
  ELSE (IF Head(str) = "%" THEN <<"%", "25">> ELSE <<Head(str)>>)
         \o EscapeFilenameInUrl(Tail(str))

\* parts.join(sep)
RECURSIVE Join(_, _)
Join(parts, sep) ==
  IF Len(parts) = 0 THEN <<>>
  ELSE IF Len(parts) = 1 THEN parts[1]
  ELSE parts[1] \o sep \o Join(Tail(parts), sep)

\* the number of "/" tokens str starts with
RECURSIVE LeadingSlashes(_)
LeadingSlashes(str) ==
  IF str # <<>> /\ Head(str) = "/" THEN 1 + LeadingSlashes(Tail(str)) ELSE 0

\* a replace that collapses every run of slashes, whatever precedes it
RECURSIVE CollapseAllSlashes(_)
CollapseAllSlashes(str) ==
  IF str = <<>> THEN <<>>
  ELSE LET n == LeadingSlashes(str)
       IN IF n >= 2
          THEN [i \in 1..(n - 1) |-> "/"]
                 \o CollapseAllSlashes(SubSeq(str, n + 1, Len(str)))
          ELSE <<Head(str)>> \o CollapseAllSlashes(Tail(str))

\* lines 44, 769 and 776: .replace(/[^:\/\/](\/{2,})/g, replacer), where
\* replacer gives the match with its first "//" replaced by "/"
RECURSIVE CollapseSlashes(_)
CollapseSlashes(str) ==
  IF str = <<>> THEN <<>>
  ELSE LET n == LeadingSlashes(Tail(str))
       IN IF Head(str) \notin {":", "/"} /\ n >= 2
          THEN <<Head(str)>> \o [i \in 1..(n - 1) |-> "/"]
                 \o CollapseSlashes(SubSeq(str, n + 2, Len(str)))
          ELSE <<Head(str)>> \o CollapseSlashes(Tail(str))

\* normalizeSpecUrl, lines 768-777
NormalizeSpecUrl(url, specUrl) ==
  CollapseSlashes(Join(<<url, <<"#", "/", "tests">>,
                         EscapeFilenameInUrl(specUrl)>>, <<"/">>))

\* str.replace(/\\/g, '/'), lines 45 and 761
ReplaceBackSlashes(str) ==
  [i \in 1..Len(str) |-> IF str[i] = "\\" THEN "/" ELSE str[i]]

\* getPrefixedPathToSpec, lines 738-766, for the spec file foo/bar.js of
\* the folder of its type: path.relative gives foo<sep>bar.js
GetPrefixedPathToSpec(sep, type) ==
  <<"/">> \o ReplaceBackSlashes(<<type, sep, "foo", sep, "bar.js">>)

\* lines 714-735 once the config is known
SpecUrl(url, sep, absoluteSpecPath, specType) ==
  IF absoluteSpecPath = "undefined" \/ absoluteSpecPath = "__all"
  THEN NormalizeSpecUrl(url, <<"/", "__all">>)
  ELSE NormalizeSpecUrl(url, GetPrefixedPathToSpec(sep, specType))

\* getSpecUrl, lines 709-736; getConfig fulfils with a config whose
\* browserUrl is browserUrl
GetSpecUrl ==
  /\ \E a \in UrlArgs :
       /\ urlOut[a] = <<>>
       /\ urlOut' = [urlOut EXCEPT ![a] = SpecUrl(browserUrl, hostSep,
                                                  a[1], a[2])]
  /\ UNCHANGED <<browserUrl, hostSep, settingsVars, statusVars, configInput,
                 channel, progVars, obsVars>>

\* ------------------------------------------------- settings-file watch

\* the settings files watchSettings may put under watch
SettingsPaths == {"configFile", "envFile"}

\* milliseconds by which the clock advances in one step
TickSteps == {499, 500}

\* a debounce whose window includes its end
DebouncedInclusive(now, stamp) ==
  stamp # Undefined /\ now - The(stamp) <= 1000

\* lines 471-474: the notification is dropped
Debounced(now, stamp) ==
  stamp # Undefined /\ now - The(stamp) < 1000

\* watchSettings, lines 458-487
WatchSettings ==
  /\ SettingsPaths \cap watchers = {}
  /\ watchers' = watchers \cup WatchSettingsPaths(env)
  /\ UNCHANGED <<settingsVars, statusVars, configInput, channel, urlVars,
                 projectType, env, spec, browser, cfg, local, server, servers,
                 automation,
                 specWatcher, cwd, saved, clock, stateToSave, pluginHost, pc,
                 tasks, reinits, obsVars>>

\* writeProjectId, lines 815-825
WriteProjectId ==
  /\ generatedProjectIdTimestamp' = Some(clock)
  /\ UNCHANGED <<notices, settingsCalls, lastInvoked, statusVars, configInput,
                 channel, urlVars, progVars, obsVars>>

\* the onChange of lines 468-480 is called for a watched settings file
SettingsFileChange ==
  /\ notices < MaxEvents
  /\ SettingsPaths \cap watchers # {}
  /\ notices' = notices + 1
  /\ IF Debounced(clock, generatedProjectIdTimestamp)
     THEN /\ lastInvoked' = FALSE
          /\ UNCHANGED settingsCalls
     ELSE /\ lastInvoked' = TRUE
          /\ settingsCalls' = settingsCalls + 1
  /\ UNCHANGED <<generatedProjectIdTimestamp, statusVars, configInput, channel,
                 urlVars, progVars, obsVars>>

\* time passes
Tick ==
  /\ \E d \in TickSteps :
       /\ clock + d <= MaxClock
       /\ clock' = clock + d
  /\ UNCHANGED <<helperVars,
                 projectType, env, spec, browser, cfg, local,
                 server, servers, automation, watchers, specWatcher, cwd,
                 saved, stateToSave, pluginHost, pc, tasks, reinits, obsVars>>

\* ---------------------------------------------------------- specification

Next ==
  \/ OpenStart
  \/ GetConfigDone
  \/ ScaffoldPluginsDone
  \/ InitPluginsDone
  \/ SpecStoreDone
  \/ ServerOpenDone
  \/ ScaffoldDone
  \/ SaveStateDone
  \/ BarrierDone
  \/ CheckSupportFileDone
  \/ WatchPluginsFileDone
  \/ ChecksDone
  \/ BeforeRunDone
  \/ CloseStart
  \/ ServerCloseDone
  \/ WatchersCloseDone
  \/ PreprocessorCloseDone
  \/ CloseSettled
  \/ CloseGetConfigDone
  \/ AfterRunDone

\* the lifecycle calls alone
Spec == Init /\ [][Next]_vars

\* the lifecycle calls and the synchronous methods of the instance
NextReset ==
  \/ Next
  \/ Reset
  \/ SetCurrentSpecAndBrowser

SpecReset == InitFreshWatched /\ [][NextReset]_vars

\* the lifecycle calls and the events of the plugins-file watch
NextWatch ==
  \/ Next
  \/ PluginsFileChange
  \/ ReinitDone
  \/ PluginHostError

SpecWatch == InitFreshWatched /\ [][NextWatch]_vars

\* an interactive project with a plugins file and run events, whatever its
\* config file and plugins function say about the viewport
InitViewport ==
  /\ Constructed({EmptyState})
  /\ env = [isTextTerminal |-> FALSE, runEvents |-> TRUE,
            pluginsFile |-> TRUE, onSettingsChanged |-> TRUE]
  /\ configInput \in ConfigInputs
  /\ HelpersIdle

\* the lifecycle calls, over the viewport settings
SpecViewport == InitViewport /\ [][Next]_vars

\* an interactive project, whatever port its config file and plugins
\* function pin and whatever port the host assigns
InitPort ==
  /\ Constructed({EmptyState})
  /\ env = [isTextTerminal |-> FALSE, runEvents |-> TRUE,
            pluginsFile |-> TRUE, onSettingsChanged |-> TRUE]
  /\ configInput \in PortInputs
  /\ HelpersIdle

\* the lifecycle calls, over the port settings
SpecPort == InitPort /\ [][Next]_vars

\* what a plugins function that overrides nothing, the viewport height,
\* the port or both yields
OverrideInputs ==
  { [PlainConfig EXCEPT !.pluginViewportHeight = h, !.pluginPort = p] :
      h \in {0, 720}, p \in {0, 9090} }

\* an interactive project with a plugins file, never opened before
InitOverride ==
  /\ Constructed({EmptyState})
  /\ env = [isTextTerminal |-> FALSE, runEvents |-> TRUE,
            pluginsFile |-> TRUE, onSettingsChanged |-> TRUE]
  /\ configInput \in OverrideInputs
  /\ HelpersIdle

\* the lifecycle calls and the events of the plugins-file watch, over
\* the overrides of the plugins function
SpecWatchOverride == InitOverride /\ [][NextWatch]_vars

\* a project of any type, never opened before
InitAnyType ==
  /\ ConstructedAs(ProjectTypes \cup OtherProjectTypes, {EmptyState})
  /\ configInput = PlainConfig
  /\ HelpersIdle

\* the lifecycle calls, for projects of known and unknown types
SpecAnyType == InitAnyType /\ [][Next]_vars

\* the instance-independent part of the initial state of a helper spec
NoLifecycle ==
  /\ Constructed({EmptyState})
  /\ projectType = "e2e"
  /\ env = [isTextTerminal |-> FALSE, runEvents |-> FALSE,
            pluginsFile |-> FALSE, onSettingsChanged |-> FALSE]
  /\ configInput = PlainConfig

\* a status helper is about to be called with some client projects, against
\* some remote side
InitStatus ==
  /\ NoLifecycle
  /\ UrlIdle
  /\ SettingsIdle
  /\ ChannelIdle
  /\ remote \in Remotes
  /\ clientProjects \in SeqsUpTo(ClientProjectSet, MaxProjects)
  /\ statusOp = "none"
  /\ statusPc = "idle"
  /\ lookups = <<>>
  /\ netCalls = <<>>
  /\ statusOut = NoOutcome

NextStatus ==
  \/ GetProjectStatus
  \/ GetProjectStatuses
  \/ AuthTokenDone
  \/ ListingDone
  \/ LookupDone
  \/ StatusSettled

\* one call of a static project-status helper
SpecStatus == InitStatus /\ [][NextStatus]_vars


\* getSpecUrl is about to be called on a project whose config has some
\* browserUrl
InitUrl ==
  /\ NoLifecycle
  /\ StatusIdle
  /\ SettingsIdle
  /\ ChannelIdle
  /\ browserUrl \in SeqsUpTo(UrlTokens, MaxUrlLen)
  /\ hostSep \in {"/", "\\"}
  /\ urlOut = [a \in UrlArgs |-> <<>>]

NextUrl == GetSpecUrl

\* getSpecUrl calls on one config
SpecUrls == InitUrl /\ [][NextUrl]_vars

\* a constructed instance whose caller does or does not give an
\* onSettingsChanged callback
InitSettings ==
  /\ Constructed({EmptyState})
  /\ projectType = "e2e"
  /\ ~env.isTextTerminal /\ ~env.runEvents /\ ~env.pluginsFile
  /\ configInput = PlainConfig
  /\ HelpersIdle

NextSettings ==
  \/ WatchSettings
  \/ WriteProjectId
  \/ SettingsFileChange
  \/ Tick

\* the settings-file watch, project-id writes and the passing of time
SpecSettings == InitSettings /\ [][NextSettings]_vars

\* ------------------------------------------------- session-channel handlers

\* setOnTestsReceived, lines 89-91
SetOnTestsReceived ==
  /\ channel' = [channel EXCEPT !.recordTests = TRUE, !.recorderCalls = 0]
  /\ UNCHANGED <<statusVars, configInput, urlVars, settingsVars, progVars,
                 obsVars>>

\* lines 549-551: this._recordTests once the recorder has been called and
\* has not returned yet
RecordTestsAfterCall(registered) == registered

\* onTestsReceivedAndMaybeRecord, lines 542-558, up to the await of line
\* 550 or to the end
TestsReceived ==
  /\ channel.received < MaxEvents
  /\ channel' =
       [channel EXCEPT
          !.received = @ + 1,
          !.runnablesSet = IF channel.reporter THEN @ + 1 ELSE @,
          !.recorderCalls = IF channel.recordTests THEN @ + 1 ELSE @,
          !.recorderPending = IF channel.recordTests THEN @ + 1 ELSE @,
          !.recordTests = IF channel.recordTests
                          THEN RecordTestsAfterCall(@) ELSE @,
          !.acks = IF channel.recordTests THEN @ ELSE @ + 1]
  /\ UNCHANGED <<statusVars, configInput, urlVars, settingsVars, progVars,
                 obsVars>>

\* the recorder call awaited at line 550 returns; lines 551-553
RecorderDone ==
  /\ channel.recorderPending > 0
  /\ channel' = [channel EXCEPT !.recorderPending = @ - 1,
                                !.recordTests = FALSE]
  /\ UNCHANGED <<statusVars, configInput, urlVars, settingsVars, progVars,
                 obsVars>>

MochaEvents == {"pass", "end"}

\* lines 569-572: the calls the Promise.all of an 'end' event awaits
EndCalls == {"reporter.end", "server.end"}

\* an 'end' emitted as soon as one of the two calls has settled
EmitsEndAfterAny(left) == left # EndCalls

\* lines 569-574: 'end' is emitted once the Promise.all has resolved
EmitsEnd(left) == left = {}

\* onMocha, lines 560-580, up to the await of line 569 or to the end
Mocha ==
  /\ channel.mocha < MaxEvents
  /\ \E event \in MochaEvents :
       channel' =
         IF ~channel.reporter
         THEN [channel EXCEPT !.mocha = @ + 1]
         ELSE [channel EXCEPT
                 !.mocha = @ + 1,
                 !.forwarded = @ + 1,
                 !.serverEnds = IF event = "end" THEN @ + 1 ELSE @,
                 !.ends = IF event = "end"
                          THEN Append(@, [left |-> EndCalls, emits |-> 0])
                          ELSE @]
  /\ UNCHANGED <<statusVars, configInput, urlVars, settingsVars, progVars,
                 obsVars>>

\* reporter.end() or server.end() of an 'end' event settles; when the
\* Promise.all of line 569 resolves with it, line 574 emits 'end'
EndCallDone ==
  /\ \E i \in DOMAIN channel.ends, call \in EndCalls :
       /\ call \in channel.ends[i].left
       /\ LET left == channel.ends[i].left \ {call}
              before == EmitsEnd(channel.ends[i].left)
          IN channel' =
               [channel EXCEPT
                  !.ends[i] = [left |-> left,
                               emits |-> IF EmitsEnd(left) /\ ~before
                                         THEN @.emits + 1 ELSE @.emits]]
  /\ UNCHANGED <<statusVars, configInput, urlVars, settingsVars, progVars,
                 obsVars>>

\* a project whose channel handlers have been handed to startWebsockets,
\* with or without reporter
InitChannel ==
  /\ NoLifecycle
  /\ StatusIdle
  /\ UrlIdle
  /\ SettingsIdle
  /\ \E reporter \in BOOLEAN : channel = NewChannel(reporter)

NextChannel ==
  \/ SetOnTestsReceived
  \/ TestsReceived
  \/ RecorderDone
  \/ Mocha
  \/ EndCallDone

\* recorder registrations and the events of the session channel
SpecChannel == InitChannel /\ [][NextChannel]_vars

\* ------------------------------------------------------------- properties

\* C1: reset() is idempotent: after one or more reset() calls with no
\* setCurrentSpecAndBrowser in between, spec and browser are null and the
\* last call did not throw, whether or not an automation session or a
\* session server exists.
C1_ResetIdempotent ==
  hist.resetRun >= 1 =>
    /\ spec = Null
    /\ browser = Null
    /\ ~rst.threw

\* two consecutive reset() calls on an open instance
C1_Witness ==
  /\ hist.resetRun = 2
  /\ hist.phase = "Open"
  /\ rst.calls = {"automation.reset", "server.reset"}

\* C2: close() on an instance on which open() never succeeded completes
\* without rejecting and calls neither the session server's close, nor the
\* watch registry's close, nor the preprocessor's close.
C2_CloseNeverOpened ==
  (hist.call = "close" /\ ~hist.everOpened /\ pc = "idle") =>
    /\ result = "resolved"
    /\ Range(trace) \cap CloseTasks = {}

\* C3: when the project had no persisted state as open() was called, then
\* once that open() has completed the config's state has firstOpened =
\* lastOpened = the timestamp `now` captured by that open().
C3_FirstOpenTimestamps ==
  (hist.phase = "Open" /\ hist.prior = EmptyState) =>
    /\ The(cfg).state.firstOpened = stateToSave.lastOpened
    /\ The(cfg).state.lastOpened = stateToSave.lastOpened
    /\ stateToSave.lastOpened # 0
    /\ saved = The(cfg).state

\* the first open() of a fresh project has completed
C3_Witness ==
  /\ hist.phase = "Open"
  /\ hist.prior = EmptyState
  /\ Len(servers) = 1

\* C4: firstOpened, once written, is never overwritten; every open() that
\* completes on a project opened before leaves firstOpened as it was and
\* lastOpened at its own timestamp, strictly greater than the previous
\* lastOpened.
C4_FirstKeptLastAdvances ==
  /\ [][saved.firstOpened # 0 => saved'.firstOpened = saved.firstOpened]_vars
  /\ [](hist.phase = "Open" /\ hist.prior.firstOpened # 0 =>
          /\ The(cfg).state.firstOpened = hist.prior.firstOpened
          /\ The(cfg).state.lastOpened = stateToSave.lastOpened
          /\ The(cfg).state.lastOpened > hist.prior.lastOpened
          /\ saved = The(cfg).state)

\* a second open() of the same instance, after a close(), has completed
C4_Witness ==
  /\ hist.phase = "Open"
  /\ ~hist.misuse
  /\ Len(servers) = 2
  /\ hist.prior.firstOpened # 0
  /\ saved.lastOpened > saved.firstOpened

\* C5: every plugins-file change event starts exactly one re-initialisation
\* cycle; a cycle that fails calls onError once, leaves the lifecycle call
\* in flight and its outcome alone, and leaves the watch registered, so
\* that a later change event starts another cycle.
C5_OneCyclePerChange ==
  /\ [](/\ hist.cyclesStarted = hist.changeEvents
        /\ hist.onErrorCalls = hist.cyclesFailed
        /\ reinits + hist.cyclesFailed <= hist.cyclesStarted)
  /\ [][hist'.cyclesFailed # hist.cyclesFailed =>
          /\ pc' = pc
          /\ result' = result
          /\ watchers' = watchers
          /\ "onError" \in Range(errLog')]_vars

\* a change event delivered after a failed cycle has started a second cycle
C5_Witness ==
  /\ hist.afterFail
  /\ hist.cyclesFailed = 1
  /\ hist.cyclesStarted = 2
  /\ reinits = 1
  /\ result = "resolved"
  /\ "pluginsFile" \in watchers

\* C6: no plugin error reaches onError unless browsers.close was called
\* first.
C6_BrowsersClosedFirst ==
  errLog # <<>> => Head(errLog) = "browsers.close"

\* C7: the stored config is undefined until an open() has completed
\* successfully, and undefined again after every close() that completes.
C7_ConfigUndefinedOutsideOpen ==
  /\ ~hist.everOpened => cfg = Undefined
  /\ (hist.call = "close" /\ pc = "idle" /\ result = "resolved") =>
       cfg = Undefined

\* C8: unless setCurrentSpecAndBrowser was called and neither reset() nor
\* close() has been called since, spec and browser are null.
C8_SpecBrowserNull ==
  ~hist.setSince => (spec = Null /\ browser = Null)

\* close() was called after setCurrentSpecAndBrowser
C8_Witness ==
  /\ hist.everSet
  /\ ~hist.setSince
  /\ hist.resetRun = 0
  /\ hist.call = "close"
  /\ spec = Null

\* C9 as stated: at most one session server is open, whatever the calls.
C9_AtMostOneOpenServer == Cardinality(OpenServers) <= 1

\* C9: as long as every open() was called on a Closed instance (never
\* opened, or closed by a close() that completed after the last open()),
\* at most one session server constructed by the instance is open.
C9_AtMostOneOpenServerWhenSerial ==
  ~hist.misuse => Cardinality(OpenServers) <= 1

\* the second session server is open, the first one closed
C9_Witness ==
  /\ ~hist.misuse
  /\ Len(servers) = 2
  /\ servers[1] = "closed"
  /\ servers[2] = "open"

C11_CloseAfterFailedOpen ==
  (hist.call = "close" /\ hist.closeFrom = "Failed" /\ pc = "idle") =>
    /\ result = "resolved"
    /\ OpenServers = {}
    /\ watchers = {}
    /\ cwd = "local"

\* C12: a status call made for client projects that have no id resolves,
\* whatever the remote side answers, with state VALID for each of them and
\* makes no account-client call (no auth-token fetch, no listing, no
\* lookup), in getProjectStatus and in getProjectStatuses alike.
C12_NoIdValidNoNetwork ==
  (/\ statusPc = "done"
   /\ Len(clientProjects) >= 1
   /\ \A i \in DOMAIN clientProjects : HasNoId(clientProjects[i])) =>
    /\ statusOut.kind = "resolved"
    /\ \A i \in DOMAIN clientProjects : statusOut.value[i].state = "VALID"
    /\ netCalls = <<>>

\* the account-client lookups made for an id
LookupsOf(id) ==
  Len(SelectSeq(netCalls, LAMBDA c : c.api = "getProject" /\ c.id = id))

\* C13: for a client project with an id, once its status is settled: when
\* the id is in the listing of a getProjectStatuses call, the status is the
\* client project merged with the remote fields and state VALID, and no
\* lookup was made for the id; otherwise one lookup per client project was
\* made, and success gives merged and VALID, 404 gives INVALID, 403 gives
\* UNAUTHORIZED, and anything else rejects the call with that very error.
\* A call that resolves returns the statuses in the order of its argument.
C13_StatusReconciliation ==
  /\ \A i \in DOMAIN lookups :
       (~IsPending(lookups[i]) /\ ~HasNoId(clientProjects[i])) =>
         LET cp == clientProjects[i]
             outcome == remote.lookup[cp.id]
             merged == /\ lookups[i].state = "VALID"
                       /\ lookups[i].id = cp.id
                       /\ lookups[i].path = cp.path
                       /\ lookups[i].name = RemoteProject(cp.id).name
                       /\ lookups[i].orgId = RemoteProject(cp.id).orgId
             kept(state) == /\ lookups[i].state = state
                             /\ lookups[i].id = cp.id
                             /\ lookups[i].path = cp.path
                             /\ lookups[i].name = cp.name
                             /\ DOMAIN lookups[i] = DOMAIN cp \cup {"state"}
         IN IF statusOp = "statuses" /\ cp.id \in remote.listed
            THEN merged /\ LookupsOf(cp.id) = 0
            ELSE /\ LookupsOf(cp.id) =
                      Cardinality({j \in DOMAIN clientProjects :
                                     /\ ~HasNoId(clientProjects[j])
                                     /\ clientProjects[j].id = cp.id})
                 /\ CASE outcome = "ok" -> merged
                      [] outcome = "404" -> kept("INVALID")
                      [] outcome = "403" -> kept("UNAUTHORIZED")
                      [] OTHER ->
                           /\ lookups[i] = LookupError(outcome)
                           /\ statusOut.kind = "rejected"
                           /\ \E j \in DOMAIN lookups :
                                /\ Threw(lookups[j])
                                /\ statusOut.error = lookups[j]
  /\ statusOut.kind = "resolved" =>
       /\ Len(statusOut.value) = Len(clientProjects)
       /\ statusPc = "done"
       /\ \A i \in DOMAIN lookups : statusOut.value[i] = lookups[i]

\* getProjectStatuses has resolved for a listed project and for one whose
\* lookup answered 403
C13_Witness ==
  /\ statusOp = "statuses"
  /\ statusOut.kind = "resolved"
  /\ Len(clientProjects) = 2
  /\ ~HasNoId(clientProjects[1])
  /\ ~HasNoId(clientProjects[2])
  /\ clientProjects[1].id \in remote.listed
  /\ clientProjects[2].id \notin remote.listed
  /\ remote.lookup[clientProjects[2].id] = "403"
  /\ statusOut.value[2].state = "UNAUTHORIZED"
  /\ statusOut.value[1].name = "remote"

\* the lookup of a project fails by itself
LookupFails(clientProject) ==
  /\ ~HasNoId(clientProject)
  /\ clientProject.id \notin remote.listed
  /\ remote.lookup[clientProject.id] \in {"500", "transport"}

\* C14: once a getProjectStatuses call that obtained the token and the
\* listing has settled, every client project whose own lookup did not fail
\* has its status returned, whatever happened to the lookups of the others.
C14_LookupFailuresIsolated ==
  (statusOp = "statuses" /\ statusPc = "done"
     /\ remote.auth /\ remote.listingOk) =>
    \A i \in DOMAIN clientProjects :
      ~LookupFails(clientProjects[i]) =>
        /\ statusOut.kind = "resolved"
        /\ "state" \in DOMAIN statusOut.value[i]

\* the viewport of a config
Viewport(c) == <<c.viewportHeight, c.viewportWidth>>

\* C15: the config handed to server.open and the config open() stores have,
\* for a component-testing project, each viewport dimension equal to the
\* one the config file gives, or to 500 when the file gives none; for an
\* end-to-end project they have the dimensions that config resolution and
\* the plugin overrides produced.
C15_CtViewportDefaults ==
  LET raw == configInput.rawJson
      ct == << IF raw.viewportHeight = 0 THEN 500 ELSE raw.viewportHeight,
               IF raw.viewportWidth = 0 THEN 500 ELSE raw.viewportWidth >>
      e2e == << IF configInput.pluginViewportHeight = 0
                THEN configInput.viewportHeight
                ELSE configInput.pluginViewportHeight,
                configInput.viewportWidth >>
      expected == IF projectType = "ct" THEN ct ELSE e2e
  IN /\ pc = "serverOpen" => Viewport(The(local)) = expected
     /\ cfg # Undefined => Viewport(The(cfg)) = expected

\* a component-testing project is open whose config file gives a width and
\* no height, and whose resolved config had another height
C15_Witness ==
  /\ projectType = "ct"
  /\ hist.phase = "Open"
  /\ configInput.rawJson = [viewportHeight |-> 0, viewportWidth |-> 400]
  /\ configInput.viewportHeight = 660
  /\ configInput.pluginViewportHeight = 720
  /\ Viewport(The(cfg)) = <<500, 400>>

\* the getSpecUrl calls for all specs: no path, or the sentinel
AllSpecsArgs == {"undefined", "__all"} \X SpecTypes

AllSpecsSuffix == <<"/", "#", "/", "tests", "/", "__all">>

\* C16 as stated: whatever browserUrl is, getSpecUrl with no path or with
\* '__all' returns browserUrl followed by "/#/tests/__all".
C16_AllSpecsUrl ==
  \A a \in AllSpecsArgs :
    urlOut[a] # <<>> => urlOut[a] = browserUrl \o AllSpecsSuffix

\* every slash of str that follows a character other than ":" and "/" is
\* itself followed by a character other than "/"
NoCollapsibleSlash(str) ==
  \A i \in 1..Len(str) :
    (str[i] \notin {":", "/"} /\ i < Len(str) /\ str[i + 1] = "/") =>
      (i + 1 < Len(str) /\ str[i + 2] # "/")

\* the length of the scheme, colon and slashes str starts with, if any
ProtocolLen(str) ==
  IF Len(str) >= 2 /\ str[1] \notin {":", "/"} /\ str[2] = ":"
  THEN 2 + LeadingSlashes(SubSeq(str, 3, Len(str)))
  ELSE 0

\* C16: getSpecUrl with no path and getSpecUrl with '__all' return the
\* same URL, for either spec type; the scheme, colon and slashes browserUrl
\* starts with are left as they are; the URL is browserUrl followed by
\* "/#/tests/__all" when no slash of browserUrl that follows a character
\* other than ":" and "/" is doubled or final, and browserUrl followed by
\* "#/tests/__all" when its only such slash is its last character.
C16_AllSpecsUrlCollapsed ==
  /\ \A a, b \in AllSpecsArgs :
       (urlOut[a] # <<>> /\ urlOut[b] # <<>>) => urlOut[a] = urlOut[b]
  /\ \A a \in AllSpecsArgs :
       urlOut[a] # <<>> =>
         /\ SubSeq(urlOut[a], 1, ProtocolLen(browserUrl))
              = SubSeq(browserUrl, 1, ProtocolLen(browserUrl))
         /\ NoCollapsibleSlash(browserUrl) =>
              urlOut[a] = browserUrl \o AllSpecsSuffix
         /\ (/\ Len(browserUrl) >= 2
             /\ browserUrl[Len(browserUrl)] = "/"
             /\ browserUrl[Len(browserUrl) - 1] \notin {":", "/"}
             /\ NoCollapsibleSlash(SubSeq(browserUrl, 1,
                                          Len(browserUrl) - 1))) =>
              urlOut[a] = browserUrl \o Tail(AllSpecsSuffix)

\* both calls were made on a browserUrl with a scheme and a final slash
C16_Witness ==
  /\ browserUrl = <<"w", ":", "/", "/", "w", "/">>
  /\ urlOut[<<"undefined", "integration">>]
       = <<"w", ":", "/", "/", "w", "/", "#", "/", "tests", "/", "__all">>
  /\ urlOut[<<"__all", "component">>] # <<>>

\* C17: an open() of a project whose type is neither e2e nor ct never
\* calls server.open and, once settled, has rejected.
C17_UnknownTypeFatal ==
  (projectType \notin ProjectTypes /\ hist.call = "open") =>
    /\ "server.open" \notin Range(trace)
    /\ pc = "idle" => result = "rejected"

\* C18: a settings-file change notification delivered less than 1000 ms
\* after the last writeProjectId does not invoke onSettingsChanged; one
\* delivered 1000 ms or more after it, or when no project id was ever
\* written, invokes it exactly once.
C18_Debounce ==
  [][notices' # notices =>
       IF /\ generatedProjectIdTimestamp # Undefined
          /\ clock - The(generatedProjectIdTimestamp) < 1000
       THEN settingsCalls' = settingsCalls
       ELSE settingsCalls' = settingsCalls + 1]_vars

\* a notification with no project id written was delivered, and then one
\* 999 ms after a write was dropped
C18_Witness ==
  /\ notices = 2
  /\ settingsCalls = 1
  /\ ~lastInvoked
  /\ generatedProjectIdTimestamp # Undefined
  /\ clock - The(generatedProjectIdTimestamp) = 999

\* the place of a call in the trace of the lifecycle call, 0 if not made
Pos(call) ==
  IF call \in Range(trace)
  THEN CHOOSE i \in DOMAIN trace : trace[i] = call
  ELSE 0

\* the call was made, and made before the other
Precedes(first, then) == Pos(first) # 0 /\ Pos(first) < Pos(then)

\* C19: in every open(): the working directory is changed only once
\* config resolution has completed; plugin host init starts only once the
\* directory is changed and, when a plugins file is configured, the
\* plugins stub is scaffolded; the session server is opened only once
\* plugin host init and spec discovery have completed; the barrier starts
\* only once the server is open; the spec watcher is started only once
\* every member of the barrier has settled.
C19_OpenOrder ==
  hist.call = "open" =>
    /\ "chdir" \in Range(trace) =>
         /\ pc # "getConfig"
         /\ "config.get" \in Range(trace) => Precedes("config.get", "chdir")
    /\ "plugins.init" \in Range(trace) =>
         /\ Precedes("chdir", "plugins.init")
         /\ env.pluginsFile => Precedes("scaffold.plugins", "plugins.init")
         /\ pc \notin {"getConfig", "scaffoldPlugins"}
    /\ "server.open" \in Range(trace) =>
         /\ Precedes("plugins.init", "specs.find")
         /\ Precedes("specs.find", "server.open")
         /\ pc \notin {"getConfig", "scaffoldPlugins", "initPlugins",
                       "specStore"}
         /\ pluginHost = "up"
    /\ \A member \in {"startWebsockets", "scaffold", "saveState"} :
         member \in Range(trace) =>
           /\ Precedes("server.open", member)
           /\ pc # "serverOpen"
           /\ servers[The(server)] = "open"
    /\ "startSpecWatcher" \in Range(trace) =>
         /\ \A member \in {"startWebsockets", "scaffold", "saveState"} :
              Precedes(member, "startSpecWatcher")
         /\ tasks \cap {"scaffold", "saveState"} = {}
         /\ specWatcher
         /\ hist.failedAt = "none"

\* an open() that resolved the config, scaffolded the plugins stub and
\* went through every step has completed
C19_Witness ==
  /\ hist.call = "open"
  /\ hist.phase = "Open"
  /\ Precedes("config.get", "chdir")
  /\ Precedes("scaffold.plugins", "plugins.init")
  /\ Precedes("startSpecWatcher", "before:run")

\* C20: when a member of the barrier of open() (session-channel wiring,
\* example scaffolding, state persistence) fails, open() rejects, on the
\* first such failure, and starts none of the later steps: no spec
\* watcher, no support-file check, no plugins-file watch, no before:run.
C20_BarrierFailureAborts ==
  (hist.call = "open" /\ hist.failedAt # "none") =>
    /\ pc = "idle"
    /\ result = "rejected"
    /\ hist.phase = "Failed"
    /\ Range(trace) \cap {"startSpecWatcher", "checkSupportFile",
                          "watchPluginsFile", "before:run"} = {}
    /\ tasks \cap CheckTasks = {}

\* state persistence failed while example scaffolding was still pending
C20_Witness ==
  /\ hist.call = "open"
  /\ hist.failedAt = "saveState"
  /\ "scaffold" \in tasks
  /\ result = "rejected"

\* C21: when a member of the barrier of open() has failed, session-channel
\* wiring included, example scaffolding and state persistence have been
\* started all the same.
C21_BarrierOthersStarted ==
  (hist.call = "open" /\ hist.failedAt # "none") =>
    {"scaffold", "saveState"} \subseteq Range(trace)

\* C22: when open() stores the config, a config that pinned no port gets
\* the port of the session server and URL fields derived from that port;
\* a config that pinned a port keeps its port and its URL fields; either
\* way proxyServer is proxyUrl, and nothing else of the config changes.
C22_PortReconciled ==
  [][(pc = "serverOpen" /\ cfg' # cfg) =>
       LET before == The(local)
           after == The(cfg')
           assigned == ServerPort(before, configInput)
       IN /\ before.port = 0 =>
               /\ after.port = assigned
               /\ after.proxyUrl = LocalUrl(assigned, "")
               /\ after.browserUrl = LocalUrl(assigned, "/__/")
          /\ before.port # 0 =>
               /\ after.port = before.port
               /\ after.proxyUrl = before.proxyUrl
               /\ after.browserUrl = before.browserUrl
          /\ after.proxyServer = Some(after.proxyUrl)
          /\ Viewport(after) = Viewport(before)
          /\ after.state = before.state]_vars

\* an open has stored a config that pinned no port, under the port the
\* host assigned
C22_Witness ==
  /\ hist.phase = "Open"
  /\ configInput.port = 0 /\ configInput.pluginPort = 0
  /\ The(cfg).port = configInput.freePort
  /\ The(cfg).proxyUrl.port = configInput.freePort

Calls(call) == Cardinality({i \in DOMAIN trace : trace[i] = call})

\* C24: an open() executes the before:run hook at most once, and only in
\* an interactive run with run events enabled, after the support-file
\* check and the plugins-file watch setup have both settled without
\* failing the open(); an open() that resolves has executed it exactly
\* once if the run is interactive with run events enabled and not at all
\* otherwise; while the hook is pending the open() is pending.
C24_BeforeRunOnce ==
  hist.call = "open" =>
    /\ Calls("before:run") <= 1
    /\ Calls("before:run") = 1 =>
         /\ ~env.isTextTerminal /\ env.runEvents
         /\ tasks \cap CheckTasks = {}
         /\ Precedes("checkSupportFile", "before:run")
         /\ Precedes("watchPluginsFile", "before:run")
         /\ hist.phase \in {"Opening", "Open"}
    /\ result = "resolved" =>
         (Calls("before:run") = 1 <=> (~env.isTextTerminal /\ env.runEvents))
    /\ pc = "beforeRun" => (result = "pending" /\ Calls("before:run") = 1)

\* an open() has resolved after executing the hook
C24_Witness ==
  /\ hist.call = "open"
  /\ result = "resolved"
  /\ Calls("before:run") = 1
  /\ hist.phase = "Open"

\* C25: a reset() forwards the reset to the automation session if there
\* is one and to the session server if there is one, to nothing else, and
\* leaves the stored config, the session server handle, the automation
\* handle and the set of watch handles as they were.
C25_ResetFrame ==
  [][hist'.resetRun = hist.resetRun + 1 =>
       /\ ("automation.reset" \in rst'.calls) <=> (automation # Undefined)
       /\ ("server.reset" \in rst'.calls) <=> (server # Undefined)
       /\ rst'.calls \subseteq {"automation.reset", "server.reset"}
       /\ UNCHANGED <<cfg, server, servers, automation, watchers>>]_vars

\* a reset() on an instance with a session server, a stored config and
\* watches but no automation session
C25_Witness ==
  /\ hist.resetRun = 1
  /\ rst.calls = {"server.reset"}
  /\ cfg # Undefined
  /\ watchers # {}

\* the config holds a value the plugins function returned
ContainsOverrides(c, input) ==
  \/ input.pluginViewportHeight # 0
       /\ c.viewportHeight = input.pluginViewportHeight
  \/ input.pluginPort # 0 /\ c.port = input.pluginPort

\* C26: while a watch-triggered re-init cycle is running, the config it
\* was started with holds no value returned by the plugins function.
C26_CycleInputIsBase ==
  reinits > 0 => ~ContainsOverrides(CycleInput(The(cfg)), configInput)

\* C27: since its registration a recorder callback has been called for at
\* most one tests-received event, and every tests-received event has
\* either been handed to a recorder or been acknowledged directly, once.
C27_RecorderAtMostOnce ==
  /\ channel.recorderCalls <= 1
  /\ channel.acks + channel.recorderPending <= channel.received

C29_SnapshotReused ==
  [][/\ (pc = "getConfig" /\ pc' # "getConfig" /\ cfg # Undefined) =>
          /\ local' = cfg
          /\ "config.get" \notin Range(trace')
          /\ result' # "rejected"
     /\ (pc = "closing" /\ pc' # "closing" /\ cfg # Undefined) =>
          /\ "config.get" \notin Range(trace')
          /\ pc' # "closeGetConfig"
     /\ (Calls("config.get")' > Calls("config.get")) => cfg = Undefined
     /\ cfg # Undefined => cfg' # Undefined]_vars

\* a later open() has been handed the stored config
C29_Witness ==
  /\ hist.call = "open"
  /\ hist.everOpened
  /\ pc \in {"scaffoldPlugins", "initPlugins"}
  /\ cfg # Undefined
  /\ local = cfg
  /\ "config.get" \notin Range(trace)

\* C30: a step of a watch-triggered re-init cycle, its start, its success
\* or its failure, leaves the stored config, the session server handle,
\* the session servers, the automation handle, the current spec and
\* browser, the set of watch handles and the spec watcher as they were.
C30_CycleFrame ==
  [][reinits' # reinits =>
       UNCHANGED <<cfg, server, servers, automation, spec, browser,
                   watchers, specWatcher>>]_vars

\* one cycle has succeeded and one has failed on an open project, whose
\* plugins-file watch is still in place
C30_Witness ==
  /\ hist.phase = "Open"
  /\ hist.cyclesStarted = 2
  /\ hist.cyclesFailed = 1
  /\ reinits = 0
  /\ "pluginsFile" \in watchers
  /\ cfg # Undefined

\* a close() called on an instance whose open() had resolved has resolved,
\* and no lifecycle call has been made since
ClosedAfterOpen ==
  /\ hist.call = "close"
  /\ hist.closeFrom = "Open"
  /\ pc = "idle"
  /\ result = "resolved"

\* C31: with serialized lifecycle calls, once a close() called on an
\* instance whose open() had resolved has completed, no settings-file or
\* plugins-file watch is registered and no plugins-file lookup is pending,
\* and until the next lifecycle call no change event is delivered, no
\* re-init cycle is started and onSettingsChanged is not called.
C31_NoWatchAfterClose ==
  /\ [](ClosedAfterOpen =>
         /\ watchers = {}
         /\ "watchPluginsFile" \notin tasks)
  /\ [][ClosedAfterOpen =>
         /\ hist'.changeEvents = hist.changeEvents
         /\ hist'.cyclesStarted = hist.cyclesStarted
         /\ notices' = notices
         /\ settingsCalls' = settingsCalls]_vars

\* a project whose plugins-file watch had delivered a change event has
\* been closed
C31_Witness ==
  /\ ClosedAfterOpen
  /\ env.pluginsFile /\ env.onSettingsChanged
  /\ hist.changeEvents >= 1
  /\ hist.changeEvents < MaxEvents
  /\ watchers = {}

====
